---------------------------- MODULE Spec2Model ----------------------------
(***************************************************************************)
(* Model of src/main.py: a Telegram bot that probes a YouTube link, shows  *)
(* a format menu and downloads the chosen format.                          *)
(*                                                                         *)
(* State: the process-wide dict user_context, and for every dispatcher     *)
(* worker the handler it is running (its position, its event, its locals). *)
(* To state properties of one handler run, each worker also carries the    *)
(* list of external calls the run has made so far (trace) and the value    *)
(* user_context had when the run began (ctx0).                             *)
(*                                                                         *)
(* The external collaborators (the chat transport, yt_dlp, the file        *)
(* system) are nondeterministic: every transport call either returns or    *)
(* raises, the probe returns one of Infos or raises, the download returns  *)
(* one of FilePaths or raises.                                             *)
(***************************************************************************)
EXTENDS Naturals, Sequences, FiniteSets, TLC

(* ------------------------------ bounds -------------------------------- *)

\* length of the format lists of MenuInfos that are enumerated in full
MaxShort == 3

\* progress-hook calls the downloader makes during one download, at most
MaxChunks == 1

\* length of the longest format list the probe returns
MaxFormats == 26

\* the ids (from_user.id, effective_user.id) of the users that send events
Users == {1, 2}

\* the threads that run handlers: the dispatcher thread alone, since no handler
\* is registered with run_async
Slots == {1}

(* ------------------------- program constants -------------------------- *)

\* formats[:15]
MenuLimit == 15

\* file_path.endswith(('.mp3', '.m4a', '.opus', '.webm'))
AudioSuffixes == {".mp3", ".m4a", ".opus", ".webm"}

\* "youtube.com" in text or "youtu.be" in text
LinkDomains == {"youtube.com", "youtu.be"}

\* callback_data of the welcome message's button
StartData == "start"

\* the texts of the messages the handlers send
MsgWelcome == "Welcome to YouTube Downloader Bot!"

MsgNoSession == "Please send a YouTube link first!"

MsgDownloading == "Downloading your file... (this may take 10-60 seconds)"

MsgProgress == "Downloading... %"

MsgComplete == "Download complete! (You can send another link)"

MsgFailed == "Failed: "

MsgInvalidLink == "Please send a valid YouTube link (youtube.com or youtu.be)"

MsgAnalyzing == "Analyzing video formats... (10-30 seconds)"

MsgSelectFormat == "Select your format:"

MsgFailedFormats == "Failed to get formats: "

(* --------------------------- pure functions --------------------------- *)

\* Python: sub in s
Contains(s, sub) ==
    \E i \in 1..(Len(s) + 1) :
        /\ i + Len(sub) - 1 <= Len(s)
        /\ SubSeq(s, i, i + Len(sub) - 1) = sub

\* Python: s.startswith(prefix)
StartsWith(s, prefix) ==
    /\ Len(prefix) <= Len(s)
    /\ SubSeq(s, 1, Len(prefix)) = prefix

\* Python: s.endswith(suffix)
EndsWith(s, suffix) ==
    /\ Len(suffix) <= Len(s)
    /\ SubSeq(s, Len(s) - Len(suffix) + 1, Len(s)) = suffix

\* Python: s.endswith(tuple_of_suffixes)
EndsWithAny(s, suffixes) == \E x \in suffixes : EndsWith(s, x)

Whitespace == {" ", "\t", "\n"}

RECURSIVE LStrip(_)
LStrip(s) ==
    IF Len(s) > 0 /\ SubSeq(s, 1, 1) \in Whitespace
    THEN LStrip(SubSeq(s, 2, Len(s)))
    ELSE s

RECURSIVE RStrip(_)
RStrip(s) ==
    IF Len(s) > 0 /\ SubSeq(s, Len(s), Len(s)) \in Whitespace
    THEN RStrip(SubSeq(s, 1, Len(s) - 1))
    ELSE s

\* Python: s.strip()
Strip(s) == RStrip(LStrip(s))

\* Python: d.get(k, default), for a dict d modelled as a function on its keys
Get(d, k, default) == IF k \in DOMAIN d THEN d[k] ELSE default

\* Python: bool(d.get(k)) for a string-valued key: a missing key gives None,
\* and None and '' are both false
Truthy(d, k) == k \in DOMAIN d /\ d[k] # ""

\* a deletion that empties the dict (d.clear())
DictClear(d, k) == [x \in {} |-> d[x]]

\* a del that removes nothing
DictDelNothing(d, k) == d

\* Python: del d[k] (for k in d)
DictDel(d, k) == [x \in (DOMAIN d) \ {k} |-> d[x]]

\* Python: d[k] = v
DictSet(d, k, v) == [x \in (DOMAIN d) \cup {k} |-> IF x = k THEN v ELSE d[x]]

\* the dict with no keys
EmptyDict == [x \in {} |-> ""]


(* ------------------------------ the menu ------------------------------ *)

\* not (not f.get('format_id') or not f.get('ext'))
HasRequiredFields(f) == Truthy(f, "format_id") /\ Truthy(f, "ext")

\* the label of one format descriptor; the two glyphs are written VIDEO, AUDIO.
\* f.get('vcodec') of a descriptor without that key is None, which != 'none'
FormatLabel(f) ==
    IF Get(f, "vcodec", "") # "none"
    THEN "VIDEO " \o Get(f, "format_note", "Unknown") \o " (" \o f["ext"] \o ")"
    ELSE "AUDIO " \o Get(f, "format_note", "Audio") \o " (" \o f["ext"] \o ")"

\* the list `formats` of (label, format_id) the loop over info.get('formats', []) builds
FormatOptions(info) ==
    LET kept == SelectSeq(Get(info, "formats", <<>>), HasRequiredFields)
    IN  [i \in 1..Len(kept) |->
            [label |-> FormatLabel(kept[i]), format_id |-> kept[i]["format_id"]]]

\* a slice that keeps the whole list
TakeAll(xs, n) == xs

\* Python: xs[:n]
Take(xs, n) == SubSeq(xs, 1, IF Len(xs) < n THEN Len(xs) ELSE n)

\* a keyboard of the last 15 entries, formats[-15:]
KeyboardOfLast(formats) ==
    LET n == Len(formats)
        shown == SubSeq(formats, IF n > MenuLimit THEN n - MenuLimit + 1 ELSE 1, n)
    IN  [i \in 1..Len(shown) |->
            [text |-> shown[i].label, callback_data |-> shown[i].format_id]]

\* the rows of the InlineKeyboardMarkup: one button for each of formats[:15]
Keyboard(formats) ==
    LET shown == Take(formats, MenuLimit)
    IN  [i \in 1..Len(shown) |->
            [text |-> shown[i].label, callback_data |-> shown[i].format_id]]

(* ------------------------- the inputs of a run ------------------------ *)

F22 == [format_id |-> "22", ext |-> "mp4", vcodec |-> "avc1", format_note |-> "720p"]

F251 == [format_id |-> "251", ext |-> "webm", vcodec |-> "none"]

F140 == [format_id |-> "140", ext |-> "m4a"]

FNoId == [ext |-> "mp4", vcodec |-> "avc1"]

FEmptyId == [format_id |-> "", ext |-> "3gp"]

FNoExt == [format_id |-> "17", format_note |-> "144p"]

FEmptyExt == [format_id |-> "18", ext |-> "", format_note |-> "360p"]

\* the pattern a long format list repeats: six usable descriptors in ten
LongPattern ==
    <<F22, F251, FNoId, F140, FEmptyExt, F251, FNoExt, F22, FEmptyId, F140>>

LongFormats == [i \in 1..MaxFormats |-> LongPattern[((i - 1) % Len(LongPattern)) + 1]]

InfoTwo == [title |-> "T1", uploader |-> "U", formats |-> <<F22, F251>>]

InfoLong == [title |-> "T3", formats |-> LongFormats]

InfoBare == [id |-> "abc123"]

\* what ydl.extract_info(text, download=False) can return
Infos == {InfoTwo, InfoLong, InfoBare}

\* the messages users send: the text and the entity types Telegram tagged in it
Messages ==
    { [text |-> "check this out https://youtu.be/abc123", entities |-> {"url"}],
      [text |-> "  youtube.com/watch \n",                 entities |-> {"url"}],
      [text |-> "https://example.com/youtube",            entities |-> {"url"}],
      [text |-> "youtube.co.uk youtu-be",                 entities |-> {"url"}],
      [text |-> "YouTube.com/watch",                      entities |-> {"url"}],
      [text |-> "watch here",                             entities |-> {"text_link"}],
      [text |-> "/start",                                 entities |-> {"bot_command"}],
      [text |-> "hello",                                  entities |-> {}] }

\* the callback_data of the buttons a user can press: the welcome button and
\* the buttons of a menu (also one of an earlier run of the process)
Payloads == {StartData, "22", "140"}

\* what ydl.prepare_filename(info) can return for outtmpl tmpdir/%(id)s.%(ext)s
FilePaths ==
    { "d/abc123.mp4", "d/abc123.webm", "d/abc123.mp3", "d/abc123.m4a",
      "d/abc123.opus", "d/abc123.mp3.mkv", "d/abc123.MP3" }

(* ----------------------------- dispatcher ----------------------------- *)

\* CommandHandler("start", start)
IsStartCommand(m) == "bot_command" \in m.entities /\ StartsWith(m.text, "/start")

\* Filters.text & ~Filters.command & (Filters.entity('url') | Filters.entity('text_link'))
LinkFilter(m) ==
    /\ "bot_command" \notin m.entities
    /\ m.entities \cap {"url", "text_link"} # {}

\* a validation that looks for the names without their top-level domains
IsYoutubeLinkLoose(text) == Contains(text, "youtube") \/ Contains(text, "youtu")

\* "youtube.com" in text or "youtu.be" in text
IsYoutubeLink(text) == \E d \in LinkDomains : Contains(text, d)

(* ------------------------------- state -------------------------------- *)

VARIABLES
    user_context,   \* the dict user_context: user id -> [link, info]
    pc,             \* per worker: where its handler stands ("idle": none running)
    ev,             \* per worker: the event its handler was called with
    loc,            \* per worker: the handler's local variables
    tmpdirs,        \* the workers whose TemporaryDirectory exists
    trace,          \* per worker: the external calls of the run, in order
    ctx0,           \* per worker: user_context when the run began
    failed_link,    \* per user: the link whose download last failed, "" when the
                    \* user's session was stored or deleted since (history)
    hist            \* per user: the text of the last probe that returned, and
                    \* the files sent to the user since then (history)

vars == <<user_context, pc, ev, loc, tmpdirs, trace, ctx0, failed_link, hist>>

NoEvent == [kind |-> "none", user_id |-> 0, data |-> ""]

NoLocals ==
    [text |-> "", link |-> "", info |-> EmptyDict, formats |-> <<>>,
     keyboard |-> <<>>, file_path |-> "", chunks |-> 0]

\* one external call: what was called, its main argument, whether it returned
Call(op, arg, ok) == [op |-> op, arg |-> arg, ok |-> ok]

\* no probe has returned for the user yet
NoHistory == [probed |-> "", delivered |-> 0]

Init ==
    /\ user_context = EmptyDict
    /\ pc = [s \in Slots |-> "idle"]
    /\ ev = [s \in Slots |-> NoEvent]
    /\ loc = [s \in Slots |-> NoLocals]
    /\ tmpdirs = {}
    /\ trace = [s \in Slots |-> <<>>]
    /\ ctx0 = [s \in Slots |-> EmptyDict]
    /\ failed_link = [u \in Users |-> ""]
    /\ hist = [u \in Users |-> NoHistory]

\* the dispatcher thread calls the handlers one after the other: none of them
\* is registered with run_async
DispatcherFree == \A s \in Slots : pc[s] = "idle"

\* the dispatcher calls a handler for an event of user u
Begin(s, kind, u, data) ==
    /\ DispatcherFree
    /\ ev' = [ev EXCEPT ![s] = [kind |-> kind, user_id |-> u, data |-> data]]
    /\ ctx0' = [ctx0 EXCEPT ![s] = user_context]

\* the handler returns (ok) or an exception leaves it
Leave(ok) == IF ok THEN "returned" ELSE "raised"

(* ------------------------------- start -------------------------------- *)

\* start(update, context): the welcome message with the 'start' button
Start(s, u, m) ==
    /\ IsStartCommand(m)
    /\ Begin(s, "command", u, m.text)
    /\ \E ok \in BOOLEAN :
        /\ trace' = [trace EXCEPT ![s] = <<Call("reply_text", MsgWelcome, ok)>>]
        /\ pc' = [pc EXCEPT ![s] = Leave(ok)]
    /\ UNCHANGED <<hist, failed_link, user_context, loc, tmpdirs>>

(* --------------------------- format_selected -------------------------- *)

\* format_selected without its session check
FormatSelectedUnchecked(s, u, d) ==
    /\ Begin(s, "callback_query", u, d)
    /\ trace' = [trace EXCEPT ![s] = <<>>]
    /\ pc' = [pc EXCEPT ![s] = "fs_edit"]
    /\ UNCHANGED <<hist, failed_link, user_context, loc, tmpdirs>>

\* lines 36-43: the session check
FormatSelected(s, u, d) ==
    /\ Begin(s, "callback_query", u, d)
    /\ IF u \notin DOMAIN user_context
       THEN \E ok \in BOOLEAN :
               /\ trace' = [trace EXCEPT ![s] = <<Call("answer", MsgNoSession, ok)>>]
               /\ pc' = [pc EXCEPT ![s] = Leave(ok)]
       ELSE /\ trace' = [trace EXCEPT ![s] = <<>>]
            /\ pc' = [pc EXCEPT ![s] = "fs_edit"]
    /\ UNCHANGED <<hist, failed_link, user_context, loc, tmpdirs>>

\* line 46: the in-progress edit, before the try
FS_EditDownloading(s) ==
    /\ pc[s] = "fs_edit"
    /\ \E ok \in BOOLEAN :
        /\ trace' = [trace EXCEPT ![s] = Append(@, Call("edit_text", MsgDownloading, ok))]
        /\ pc' = [pc EXCEPT ![s] = IF ok THEN "fs_tmpdir" ELSE "raised"]
    /\ UNCHANGED <<hist, failed_link, user_context, ev, loc, tmpdirs, ctx0>>

\* line 50: with tempfile.TemporaryDirectory() as tmpdir
FS_TemporaryDirectory(s) ==
    /\ pc[s] = "fs_tmpdir"
    /\ tmpdirs' = tmpdirs \cup {s}
    /\ trace' = [trace EXCEPT ![s] = Append(@, Call("TemporaryDirectory", "", TRUE))]
    /\ pc' = [pc EXCEPT ![s] = "fs_ydl"]
    /\ UNCHANGED <<hist, failed_link, user_context, ev, loc, ctx0>>

\* an unwinding that leaves the directory behind
UnwindLeaking(s, calls) ==
    /\ UNCHANGED tmpdirs
    /\ trace' = [trace EXCEPT ![s] = @ \o calls]
    /\ pc' = [pc EXCEPT ![s] = "fs_except"]

\* an exception inside the with block: TemporaryDirectory.__exit__ removes the
\* directory, then the except clause runs
Unwind(s, calls) ==
    /\ tmpdirs' = tmpdirs \ {s}
    /\ trace' = [trace EXCEPT ![s] = @ \o calls \o <<Call("cleanup", "", TRUE)>>]
    /\ pc' = [pc EXCEPT ![s] = "fs_except"]

\* lines 51-62: YoutubeDL(ydl_opts) with 'format': format_id, then
\* extract_info(user_context[user_id]['link'], download=True) is called
FS_ExtractInfo(s) ==
    /\ pc[s] = "fs_ydl"
    /\ IF ev[s].user_id \in DOMAIN user_context
       THEN /\ loc' = [loc EXCEPT ![s].link = user_context[ev[s].user_id].link,
                                  ![s].chunks = 0]
            /\ trace' = [trace EXCEPT ![s] = Append(@, Call("YoutubeDL", ev[s].data, TRUE))]
            /\ pc' = [pc EXCEPT ![s] = "fs_downloading"]
            /\ UNCHANGED tmpdirs
       ELSE \* KeyError
            /\ Unwind(s, <<Call("YoutubeDL", ev[s].data, TRUE)>>)
            /\ UNCHANGED loc
    /\ UNCHANGED <<hist, failed_link, user_context, ev, ctx0>>

\* lines 56-58: the progress hook, called by the download for a chunk
FS_ProgressHook(s) ==
    /\ pc[s] = "fs_downloading"
    /\ loc[s].chunks < MaxChunks
    /\ \E ok \in BOOLEAN :
        IF ok
        THEN /\ loc' = [loc EXCEPT ![s].chunks = @ + 1]
             /\ trace' = [trace EXCEPT ![s] = Append(@, Call("edit_text", MsgProgress, TRUE))]
             /\ UNCHANGED <<pc, tmpdirs>>
        ELSE /\ Unwind(s, <<Call("edit_text", MsgProgress, FALSE),
                            Call("extract_info", loc[s].link, FALSE)>>)
             /\ UNCHANGED loc
    /\ UNCHANGED <<hist, failed_link, user_context, ev, ctx0>>

\* a download after which the session is cleaned up before the file is sent
FS_DownloadedDeletingFirst(s, path) ==
    /\ pc[s] = "fs_downloading"
    /\ loc' = [loc EXCEPT ![s].file_path = path]
    /\ trace' = [trace EXCEPT ![s] = Append(@, Call("extract_info", loc[s].link, TRUE))]
    /\ pc' = [pc EXCEPT ![s] = "fs_del"]
    /\ UNCHANGED <<hist, failed_link, user_context, ev, tmpdirs, ctx0>>

\* lines 62-63: extract_info returns and prepare_filename gives the file's path
FS_Downloaded(s, path) ==
    /\ pc[s] = "fs_downloading"
    /\ loc' = [loc EXCEPT ![s].file_path = path]
    /\ trace' = [trace EXCEPT ![s] = Append(@, Call("extract_info", loc[s].link, TRUE))]
    /\ pc' = [pc EXCEPT ![s] = "fs_send"]
    /\ UNCHANGED <<hist, failed_link, user_context, ev, tmpdirs, ctx0>>

\* line 62: extract_info raises
FS_DownloadError(s) ==
    /\ pc[s] = "fs_downloading"
    /\ Unwind(s, <<Call("extract_info", loc[s].link, FALSE)>>)
    /\ UNCHANGED <<hist, failed_link, user_context, ev, loc, ctx0>>

\* a classification that looks for the extension anywhere in the path
SendOpAnywhere(file_path) ==
    IF \E x \in AudioSuffixes : Contains(file_path, x) THEN "reply_audio" ELSE "reply_video"

\* lines 66-77: the file goes out as audio or as video; then the with block ends
SendOp(file_path) ==
    IF EndsWithAny(file_path, AudioSuffixes) THEN "reply_audio" ELSE "reply_video"

FS_SendFile(s) ==
    /\ pc[s] = "fs_send"
    /\ \E ok \in BOOLEAN :
        IF ok
        THEN /\ tmpdirs' = tmpdirs \ {s}
             /\ trace' = [trace EXCEPT ![s] =
                    @ \o <<Call(SendOp(loc[s].file_path), loc[s].file_path, TRUE),
                           Call("cleanup", "", TRUE)>>]
             /\ hist' = [hist EXCEPT ![ev[s].user_id].delivered = @ + 1]
             /\ pc' = [pc EXCEPT ![s] = "fs_del"]
        ELSE /\ Unwind(s, <<Call(SendOp(loc[s].file_path), loc[s].file_path, FALSE)>>)
             /\ UNCHANGED hist
    /\ UNCHANGED <<failed_link, user_context, ev, loc, ctx0>>

\* line 80: del user_context[user_id]
FS_DeleteSession(s) ==
    /\ pc[s] = "fs_del"
    /\ IF ev[s].user_id \in DOMAIN user_context
       THEN /\ user_context' = DictDel(user_context, ev[s].user_id)
            /\ failed_link' = [failed_link EXCEPT ![ev[s].user_id] = ""]
            /\ trace' = [trace EXCEPT ![s] = Append(@, Call("del", "", TRUE))]
            /\ pc' = [pc EXCEPT ![s] = "fs_complete"]
       ELSE \* KeyError
            /\ trace' = [trace EXCEPT ![s] = Append(@, Call("del", "", FALSE))]
            /\ pc' = [pc EXCEPT ![s] = "fs_except"]
            /\ UNCHANGED <<user_context, failed_link>>
    /\ UNCHANGED <<hist, ev, loc, tmpdirs, ctx0>>

\* line 81: the completion edit
FS_EditComplete(s) ==
    /\ pc[s] = "fs_complete"
    /\ \E ok \in BOOLEAN :
        /\ trace' = [trace EXCEPT ![s] = Append(@, Call("edit_text", MsgComplete, ok))]
        /\ pc' = [pc EXCEPT ![s] = IF ok THEN "returned" ELSE "fs_except"]
    /\ UNCHANGED <<hist, failed_link, user_context, ev, loc, tmpdirs, ctx0>>

\* the run's download failed: extract_info raised, or sending the file did
DownloadFailed(s) ==
    \E i \in 1..Len(trace[s]) :
        /\ trace[s][i].op \in {"extract_info", "reply_audio", "reply_video"}
        /\ ~trace[s][i].ok

\* an except clause that also deletes the session
FS_ExceptDeleting(s) ==
    /\ pc[s] = "fs_except"
    /\ \E ok \in BOOLEAN :
        /\ trace' = [trace EXCEPT ![s] = Append(@, Call("edit_text", MsgFailed, ok))]
        /\ pc' = [pc EXCEPT ![s] = Leave(ok)]
    /\ failed_link' = [failed_link EXCEPT ![ev[s].user_id] =
            IF DownloadFailed(s) THEN loc[s].link ELSE @]
    /\ user_context' = DictDel(user_context, ev[s].user_id)
    /\ UNCHANGED <<hist, ev, loc, tmpdirs, ctx0>>

\* lines 83-85: except Exception: log, then the failure edit
FS_Except(s) ==
    /\ pc[s] = "fs_except"
    /\ \E ok \in BOOLEAN :
        /\ trace' = [trace EXCEPT ![s] = Append(@, Call("edit_text", MsgFailed, ok))]
        /\ pc' = [pc EXCEPT ![s] = Leave(ok)]
    /\ failed_link' = [failed_link EXCEPT ![ev[s].user_id] =
            IF DownloadFailed(s) THEN loc[s].link ELSE @]
    /\ UNCHANGED <<hist, user_context, ev, loc, tmpdirs, ctx0>>

(* ------------------------- handle_youtube_link ------------------------ *)

\* lines 89-95: strip the text and validate it
HandleYoutubeLink(s, u, m) ==
    /\ LinkFilter(m)
    /\ Begin(s, "message", u, m.text)
    /\ loc' = [loc EXCEPT ![s].text = Strip(m.text)]
    /\ IF ~IsYoutubeLink(Strip(m.text))
       THEN \E ok \in BOOLEAN :
               /\ trace' = [trace EXCEPT ![s] = <<Call("reply_text", MsgInvalidLink, ok)>>]
               /\ pc' = [pc EXCEPT ![s] = Leave(ok)]
       ELSE /\ trace' = [trace EXCEPT ![s] = <<>>]
            /\ pc' = [pc EXCEPT ![s] = "hl_analyzing"]
    /\ UNCHANGED <<hist, failed_link, user_context, tmpdirs>>

\* line 98: the "analyzing" reply, before the try
HL_ReplyAnalyzing(s) ==
    /\ pc[s] = "hl_analyzing"
    /\ \E ok \in BOOLEAN :
        /\ trace' = [trace EXCEPT ![s] = Append(@, Call("reply_text", MsgAnalyzing, ok))]
        /\ pc' = [pc EXCEPT ![s] = IF ok THEN "hl_probe" ELSE "raised"]
    /\ UNCHANGED <<hist, failed_link, user_context, ev, loc, tmpdirs, ctx0>>

\* lines 102-104: info = ydl.extract_info(text, download=False) returns
HL_Probed(s, info) ==
    /\ pc[s] = "hl_probe"
    /\ loc' = [loc EXCEPT ![s].info = info]
    /\ trace' = [trace EXCEPT ![s] = Append(@, Call("probe", loc[s].text, TRUE))]
    /\ hist' = [hist EXCEPT ![ev[s].user_id] = [probed |-> ev[s].data, delivered |-> 0]]
    /\ pc' = [pc EXCEPT ![s] = "hl_store"]
    /\ UNCHANGED <<failed_link, user_context, ev, tmpdirs, ctx0>>

\* a failed probe that also drops the session the user had
HL_ProbeErrorDropping(s) ==
    /\ pc[s] = "hl_probe"
    /\ trace' = [trace EXCEPT ![s] = Append(@, Call("probe", loc[s].text, FALSE))]
    /\ pc' = [pc EXCEPT ![s] = "hl_except"]
    /\ user_context' = DictDel(user_context, ev[s].user_id)
    /\ UNCHANGED <<hist, failed_link, ev, loc, tmpdirs, ctx0>>

\* lines 102-104: the probe raises
HL_ProbeError(s) ==
    /\ pc[s] = "hl_probe"
    /\ trace' = [trace EXCEPT ![s] = Append(@, Call("probe", loc[s].text, FALSE))]
    /\ pc' = [pc EXCEPT ![s] = "hl_except"]
    /\ UNCHANGED <<hist, failed_link, user_context, ev, loc, tmpdirs, ctx0>>

\* a store that keeps the entry the user already has (setdefault)
HL_StoreContextKeepingFirst(s) ==
    /\ pc[s] = "hl_store"
    /\ user_context' =
            IF ev[s].user_id \in DOMAIN user_context
            THEN user_context
            ELSE DictSet(user_context, ev[s].user_id,
                         [link |-> loc[s].text, info |-> loc[s].info])
    /\ failed_link' = [failed_link EXCEPT ![ev[s].user_id] = ""]
    /\ pc' = [pc EXCEPT ![s] = "hl_formats"]
    /\ UNCHANGED <<hist, ev, loc, tmpdirs, trace, ctx0>>

\* line 107: user_context[user_id] = {'link': text, 'info': info}
HL_StoreContext(s) ==
    /\ pc[s] = "hl_store"
    /\ user_context' = DictSet(user_context, ev[s].user_id,
                               [link |-> loc[s].text, info |-> loc[s].info])
    /\ failed_link' = [failed_link EXCEPT ![ev[s].user_id] = ""]
    /\ pc' = [pc EXCEPT ![s] = "hl_formats"]
    /\ UNCHANGED <<hist, ev, loc, tmpdirs, trace, ctx0>>

\* lines 110-129: the format options and the keyboard
HL_PrepareFormats(s) ==
    /\ pc[s] = "hl_formats"
    /\ loc' = [loc EXCEPT ![s].formats = FormatOptions(loc[s].info),
                          ![s].keyboard = Keyboard(FormatOptions(loc[s].info))]
    /\ pc' = [pc EXCEPT ![s] = "hl_menu"]
    /\ UNCHANGED <<hist, failed_link, user_context, ev, tmpdirs, trace, ctx0>>

\* lines 131-136: the menu reply; info['title'] raises KeyError without a title
HL_ReplyMenu(s) ==
    /\ pc[s] = "hl_menu"
    /\ IF "title" \notin DOMAIN loc[s].info
       THEN /\ pc' = [pc EXCEPT ![s] = "hl_except"]
            /\ UNCHANGED trace
       ELSE \E ok \in BOOLEAN :
               /\ trace' = [trace EXCEPT ![s] = Append(@, Call("reply_text", MsgSelectFormat, ok))]
               /\ pc' = [pc EXCEPT ![s] = IF ok THEN "returned" ELSE "hl_except"]
    /\ UNCHANGED <<hist, failed_link, user_context, ev, loc, tmpdirs, ctx0>>

\* lines 138-140: except Exception: log, then the failure reply
HL_Except(s) ==
    /\ pc[s] = "hl_except"
    /\ \E ok \in BOOLEAN :
        /\ trace' = [trace EXCEPT ![s] = Append(@, Call("reply_text", MsgFailedFormats, ok))]
        /\ pc' = [pc EXCEPT ![s] = Leave(ok)]
    /\ UNCHANGED <<hist, failed_link, user_context, ev, loc, tmpdirs, ctx0>>

(* ------------------------------ dispatcher ---------------------------- *)

\* the handler is over: the dispatcher (which logs an exception that left the
\* handler) takes the next update
Return(s) ==
    /\ pc[s] \in {"returned", "raised"}
    /\ pc' = [pc EXCEPT ![s] = "idle"]
    /\ ev' = [ev EXCEPT ![s] = NoEvent]
    /\ loc' = [loc EXCEPT ![s] = NoLocals]
    /\ trace' = [trace EXCEPT ![s] = <<>>]
    /\ ctx0' = [ctx0 EXCEPT ![s] = EmptyDict]
    /\ UNCHANGED <<hist, failed_link, user_context, tmpdirs>>

Next ==
    \E s \in Slots :
        \/ \E u \in Users, m \in Messages : Start(s, u, m)
        \/ \E u \in Users, d \in Payloads : FormatSelected(s, u, d)
        \/ FS_EditDownloading(s)
        \/ FS_TemporaryDirectory(s)
        \/ FS_ExtractInfo(s)
        \/ FS_ProgressHook(s)
        \/ \E path \in FilePaths : FS_Downloaded(s, path)
        \/ FS_DownloadError(s)
        \/ FS_SendFile(s)
        \/ FS_DeleteSession(s)
        \/ FS_EditComplete(s)
        \/ FS_Except(s)
        \/ \E u \in Users, m \in Messages : HandleYoutubeLink(s, u, m)
        \/ HL_ReplyAnalyzing(s)
        \/ \E info \in Infos : HL_Probed(s, info)
        \/ HL_ProbeError(s)
        \/ HL_StoreContext(s)
        \/ HL_PrepareFormats(s)
        \/ HL_ReplyMenu(s)
        \/ HL_Except(s)
        \/ Return(s)

Spec == Init /\ [][Next]_vars

(* ------------------- the menu of any probed list ---------------------- *)

Descriptors == {F22, F251, F140, FNoId, FEmptyId, FNoExt, FEmptyExt}

\* the format lists SpecMenu probes: every list of at most MaxShort
\* descriptors, and every prefix of the long list
MenuFormatLists ==
    UNION {[1..n -> Descriptors] : n \in 0..MaxShort}
        \cup {SubSeq(LongFormats, 1, n) : n \in 0..MaxFormats}

\* what the probe can return: Infos, and any of the lists with and without
\* a title
MenuInfos ==
    Infos \cup {[title |-> "T", formats |-> fs] : fs \in MenuFormatLists}
          \cup {[id |-> "abc123", formats |-> fs] : fs \in MenuFormatLists}

\* the stripped text of a valid link message
MenuLink == "check this out https://youtu.be/abc123"

\* handle_youtube_link of user 1's first link, right after line 107 stored
\* the session, for any probe result of MenuInfos
InitMenu ==
    \E info \in MenuInfos :
        /\ user_context = DictSet(EmptyDict, 1, [link |-> MenuLink, info |-> info])
        /\ pc = [s \in Slots |-> "hl_formats"]
        /\ ev = [s \in Slots |-> [kind |-> "message", user_id |-> 1, data |-> MenuLink]]
        /\ loc = [s \in Slots |-> [NoLocals EXCEPT !.text = MenuLink, !.info = info]]
        /\ tmpdirs = {}
        /\ trace = [s \in Slots |-> <<Call("reply_text", MsgAnalyzing, TRUE),
                                      Call("probe", MenuLink, TRUE)>>]
        /\ ctx0 = [s \in Slots |-> EmptyDict]
        /\ failed_link = [u \in Users |-> ""]
        /\ hist = [u \in Users |->
                    IF u = 1 THEN [probed |-> MenuLink, delivered |-> 0] ELSE NoHistory]

\* the rest of that handler run
NextMenu ==
    \E s \in Slots :
        \/ HL_PrepareFormats(s)
        \/ HL_ReplyMenu(s)
        \/ HL_Except(s)
        \/ Return(s)

SpecMenu == InitMenu /\ [][NextMenu]_vars

(* ======================== properties of a run ========================= *)

\* the handler of worker s is over
Finished(s) == pc[s] \in {"returned", "raised"}

\* worker s runs (or has just finished) format_selected / handle_youtube_link
IsPress(s) == ev[s].kind = "callback_query"

IsLink(s) == ev[s].kind = "message"

\* the positions in the run's trace of the calls of the given operations
CallsOf(s, ops) == {i \in 1..Len(trace[s]) : trace[s][i].op \in ops}

\* the positions of the calls that returned / that raised
Returned(s, ops) == {i \in CallsOf(s, ops) : trace[s][i].ok}

Raised(s, ops) == {i \in CallsOf(s, ops) : ~trace[s][i].ok}

SendOps == {"reply_audio", "reply_video"}

DownloadOps == {"YoutubeDL", "extract_info"}

(* ------------------------------------------------------------------------ *)
(* C1: a button press of a user who has no entry in user_context answers    *)
(* with the "send a link first" warning and is over: that answer is the     *)
(* run's only call (no download, no temporary directory), and user_context  *)
(* is what it was when the press arrived.                                   *)
(* ------------------------------------------------------------------------ *)
C1_NoSessionOnlyWarns ==
    \A s \in Slots :
        (IsPress(s) /\ ev[s].user_id \notin DOMAIN ctx0[s]) =>
            /\ Len(trace[s]) = 1
            /\ trace[s][1].op = "answer"
            /\ trace[s][1].arg = "Please send a YouTube link first!"
            /\ pc[s] = (IF trace[s][1].ok THEN "returned" ELSE "raised")
            /\ CallsOf(s, DownloadOps \cup {"TemporaryDirectory"}) = {}
            /\ s \notin tmpdirs
            /\ user_context = ctx0[s]

\* a press without a session has returned while another user holds a session
C1_Witness ==
    \E s \in Slots :
        /\ IsPress(s)
        /\ ev[s].user_id \notin DOMAIN ctx0[s]
        /\ pc[s] = "returned"
        /\ DOMAIN user_context # {}

(* ------------------------------------------------------------------------ *)
(* C2: when a button press is over and its download and its file dispatch   *)
(* both succeeded, the user has no entry in user_context.                   *)
(* ------------------------------------------------------------------------ *)
C2_SuccessDeletesSession ==
    \A s \in Slots :
        (/\ IsPress(s)
         /\ Finished(s)
         /\ Returned(s, {"extract_info"}) # {}
         /\ Returned(s, SendOps) # {}) =>
            ev[s].user_id \notin DOMAIN user_context

\* a press of a user with a session has returned after a successful dispatch
C2_Witness ==
    \E s \in Slots :
        /\ IsPress(s)
        /\ pc[s] = "returned"
        /\ ev[s].user_id \in DOMAIN ctx0[s]
        /\ Returned(s, {"extract_info"}) # {}
        /\ Returned(s, SendOps) # {}

(* ------------------------------------------------------------------------ *)
(* C3: when a button press is over and its download failed (the download    *)
(* or the file dispatch raised), the user has no entry in user_context.     *)
(* ------------------------------------------------------------------------ *)
C3_FailureDeletesSession ==
    \A s \in Slots :
        (/\ IsPress(s)
         /\ Finished(s)
         /\ Raised(s, {"extract_info"} \cup SendOps) # {}) =>
            ev[s].user_id \notin DOMAIN user_context

(* ------------------------------------------------------------------------ *)
(* C4: a failed download leaves the session as it was, and the session      *)
(* then serves the user's next presses.  (a) When a press is over and its   *)
(* download or its file dispatch raised, the user's entry in user_context   *)
(* is the one the run began with.  (b) From then until a link handler       *)
(* stores a new session or a download succeeds (failed_link[u] # ""), the   *)
(* user's entry holds the link of the failed download; a press of that user *)
(* is not answered with the warning, every download it starts is of that    *)
(* same link, and it ends without starting one only when its in-progress    *)
(* edit (line 46) raised.                                                   *)
(* ------------------------------------------------------------------------ *)
C4_FailureKeepsSession ==
    /\ \A s \in Slots :
        (IsPress(s) /\ Finished(s) /\ Raised(s, {"extract_info"} \cup SendOps) # {}) =>
            /\ ev[s].user_id \in DOMAIN user_context
            /\ ev[s].user_id \in DOMAIN ctx0[s]
            /\ user_context[ev[s].user_id] = ctx0[s][ev[s].user_id]
            /\ failed_link[ev[s].user_id] = user_context[ev[s].user_id].link
    /\ \A u \in Users :
        failed_link[u] # "" =>
            /\ u \in DOMAIN user_context
            /\ user_context[u].link = failed_link[u]
            /\ \A s \in Slots :
                (IsPress(s) /\ ev[s].user_id = u) =>
                    /\ CallsOf(s, {"answer"}) = {}
                    /\ \A i \in CallsOf(s, {"extract_info"}) :
                            trace[s][i].arg = failed_link[u]
                    /\ pc[s] = "fs_downloading" => loc[s].link = failed_link[u]
                    /\ Finished(s) =>
                        \/ CallsOf(s, {"YoutubeDL"}) # {}
                        \/ trace[s] = <<[op |-> "edit_text",
                                         arg |-> "Downloading your file... (this may take 10-60 seconds)",
                                         ok |-> FALSE]>>

\* after a failed download, and before that run's except clause could have run
\* again, a press of the same user is downloading the same link once more
C4_Witness ==
    \E s \in Slots :
        /\ IsPress(s)
        /\ pc[s] = "fs_downloading"
        /\ failed_link[ev[s].user_id] # ""
        /\ loc[s].link = failed_link[ev[s].user_id]
        /\ Raised(s, {"extract_info"} \cup SendOps) = {}

(* ------------------------------------------------------------------------ *)
(* C5: a text message with neither "youtube.com" nor "youtu.be" in it gets  *)
(* the invalid-link warning as the run's only call (no probe), the run is   *)
(* over, and user_context is what it was when the message arrived.          *)
(* ------------------------------------------------------------------------ *)
C5_InvalidLinkRejected ==
    \A s \in Slots :
        (/\ IsLink(s)
         /\ ~Contains(ev[s].data, "youtube.com")
         /\ ~Contains(ev[s].data, "youtu.be")) =>
            /\ Len(trace[s]) = 1
            /\ trace[s][1].op = "reply_text"
            /\ trace[s][1].arg = "Please send a valid YouTube link (youtube.com or youtu.be)"
            /\ pc[s] = (IF trace[s][1].ok THEN "returned" ELSE "raised")
            /\ CallsOf(s, {"probe"}) = {}
            /\ user_context = ctx0[s]

\* an invalid link of a user who holds a session from an earlier link was rejected
C5_Witness ==
    \E s \in Slots :
        /\ IsLink(s)
        /\ ~Contains(ev[s].data, "youtube.com")
        /\ ~Contains(ev[s].data, "youtu.be")
        /\ pc[s] = "returned"
        /\ ev[s].user_id \in DOMAIN user_context

(* ------------------------------------------------------------------------ *)
(* C6: once a link run has probed successfully and built its keyboard, the  *)
(* keyboard has at most 15 buttons, every button has a non-empty text and a *)
(* non-empty callback_data, and every button is the button of a descriptor  *)
(* of the probed list that has a non-empty format_id and a non-empty ext    *)
(* (its callback_data is that format_id, its text ends with that ext).      *)
(* ------------------------------------------------------------------------ *)
MenuBuilt(s) ==
    /\ IsLink(s)
    /\ Returned(s, {"probe"}) # {}
    /\ pc[s] \notin {"hl_store", "hl_formats"}

C6_MenuWellFormed ==
    \A s \in Slots :
        MenuBuilt(s) =>
            LET kb == loc[s].keyboard
                fs == IF "formats" \in DOMAIN loc[s].info THEN loc[s].info["formats"] ELSE <<>>
            IN  /\ Len(kb) <= 15
                /\ \A i \in 1..Len(kb) :
                    /\ kb[i].text # ""
                    /\ kb[i].callback_data # ""
                    /\ \E j \in 1..Len(fs) :
                        /\ "format_id" \in DOMAIN fs[j]
                        /\ "ext" \in DOMAIN fs[j]
                        /\ fs[j]["format_id"] # ""
                        /\ fs[j]["ext"] # ""
                        /\ kb[i].callback_data = fs[j]["format_id"]
                        /\ EndsWith(kb[i].text, "(" \o fs[j]["ext"] \o ")")

\* a menu of 15 buttons was sent for a probed list that holds more than 15
\* usable descriptors and descriptors without a format_id or an ext
C6_Witness ==
    \E s \in Slots :
        /\ MenuBuilt(s)
        /\ pc[s] = "returned"
        /\ Returned(s, {"reply_text"}) # {}
        /\ Len(loc[s].keyboard) = 15
        /\ Len(loc[s].formats) > 15
        /\ \E j \in 1..Len(loc[s].info["formats"]) :
                "format_id" \notin DOMAIN loc[s].info["formats"][j]
        /\ \E j \in 1..Len(loc[s].info["formats"]) :
                /\ "ext" \in DOMAIN loc[s].info["formats"][j]
                /\ loc[s].info["formats"][j]["ext"] = ""

(* ------------------------------------------------------------------------ *)
(* C7: a press sends no file before its download has returned; once the     *)
(* download has returned and the dispatch step is done, the run has made    *)
(* exactly one file dispatch, of the downloaded file, and it is reply_audio *)
(* iff the file's path ends in .mp3, .m4a, .opus or .webm and reply_video   *)
(* otherwise.                                                               *)
(* ------------------------------------------------------------------------ *)
C7_DispatchByExtension ==
    \A s \in Slots :
        IsPress(s) =>
            /\ Returned(s, {"extract_info"}) = {} => CallsOf(s, SendOps) = {}
            /\ (Returned(s, {"extract_info"}) # {} /\ pc[s] # "fs_send") =>
                /\ Cardinality(CallsOf(s, SendOps)) = 1
                /\ \A i \in CallsOf(s, SendOps) :
                    /\ trace[s][i].arg = loc[s].file_path
                    /\ trace[s][i].op = "reply_audio" <=>
                        \E suffix \in {".mp3", ".m4a", ".opus", ".webm"} :
                            /\ Len(trace[s][i].arg) >= Len(suffix)
                            /\ SubSeq(trace[s][i].arg,
                                      Len(trace[s][i].arg) - Len(suffix) + 1,
                                      Len(trace[s][i].arg)) = suffix

\* a file with an audio extension inside its name, but not at its end, went
\* out as video, and the press returned
C7_Witness ==
    \E s \in Slots :
        /\ IsPress(s)
        /\ pc[s] = "returned"
        /\ \E i \in Returned(s, {"reply_video"}) : trace[s][i].arg = "d/abc123.mp3.mkv"

(* ------------------------------------------------------------------------ *)
(* C8: when the probe of a link run raises, the exception is caught: the    *)
(* run goes to its except clause, whose failure reply is the run's last     *)
(* call (the run ends by returning unless that reply itself raises), and    *)
(* user_context stays what it was when the message arrived.                 *)
(* ------------------------------------------------------------------------ *)
C8_ProbeFailureKeepsContext ==
    \A s \in Slots :
        (IsLink(s) /\ Raised(s, {"probe"}) # {}) =>
            /\ user_context = ctx0[s]
            /\ pc[s] \in {"hl_except", "returned", "raised"}
            /\ pc[s] = "hl_except" => trace[s][Len(trace[s])].op = "probe"
            /\ Finished(s) =>
                /\ trace[s][Len(trace[s])].op = "reply_text"
                /\ trace[s][Len(trace[s])].arg = "Failed to get formats: "
                /\ trace[s][Len(trace[s]) - 1].op = "probe"
                /\ pc[s] = (IF trace[s][Len(trace[s])].ok THEN "returned" ELSE "raised")

\* the probe of a user who holds a session from an earlier link raised, and
\* the run returned after its failure reply
C8_Witness ==
    \E s \in Slots :
        /\ IsLink(s)
        /\ Raised(s, {"probe"}) # {}
        /\ pc[s] = "returned"
        /\ ev[s].user_id \in DOMAIN ctx0[s]
        /\ ev[s].user_id \in DOMAIN user_context

(* ------------------------------------------------------------------------ *)
(* C9: a temporary directory exists only while its press is inside the with *)
(* block (before the download, downloading, sending); when the handler is   *)
(* over or no handler runs, its directory is gone, and every directory the  *)
(* run created was cleaned up.                                              *)
(* ------------------------------------------------------------------------ *)
C9_TmpdirReleased ==
    \A s \in Slots :
        /\ s \in tmpdirs => pc[s] \in {"fs_ydl", "fs_downloading", "fs_send"}
        /\ pc[s] \notin {"fs_ydl", "fs_downloading", "fs_send"} =>
                Cardinality(CallsOf(s, {"TemporaryDirectory"}))
                    = Cardinality(CallsOf(s, {"cleanup"}))

\* a press whose progress callback raised is over, its directory created and gone
C9_Witness ==
    \E s \in Slots :
        /\ IsPress(s)
        /\ Finished(s)
        /\ CallsOf(s, {"TemporaryDirectory"}) # {}
        /\ \E i \in Raised(s, {"edit_text"}) : trace[s][i].arg = "Downloading... %"
        /\ s \notin tmpdirs

(* ------------------------------------------------------------------------ *)
(* C10: in a press of a user with a session, every call that raises (other  *)
(* than the failure edit itself) is followed by the failure edit: no        *)
(* failure of the in-progress edit, the download, the dispatch, the session *)
(* deletion or the completion edit leaves the handler unreported.           *)
(* ------------------------------------------------------------------------ *)
C10_FailuresCaught ==
    \A s \in Slots :
        (IsPress(s) /\ Finished(s) /\ ev[s].user_id \in DOMAIN ctx0[s]) =>
            \A i \in 1..Len(trace[s]) :
                (~trace[s][i].ok /\ trace[s][i].arg # "Failed: ") =>
                    \E j \in (i + 1)..Len(trace[s]) :
                        /\ trace[s][j].op = "edit_text"
                        /\ trace[s][j].arg = "Failed: "

(* ------------------------------------------------------------------------ *)
(* C11: in a press of a user who has a session, the in-progress edit, the   *)
(* download call, the file dispatch, the deletion of the session and the    *)
(* completion edit happen at most once each and in that order, each only    *)
(* after the one before it returned; a press that returned without a        *)
(* failure made all five.  The user's entry is gone only after the dispatch *)
(* returned, and the completion edit is made only with the entry gone.      *)
(* ------------------------------------------------------------------------ *)
EditsOf(s, text) == {i \in CallsOf(s, {"edit_text"}) : trace[s][i].arg = text}

\* the calls at the positions in A were made and returned before any call in B
ReturnedBefore(s, A, B) ==
    \A j \in B : \E i \in A : i < j /\ trace[s][i].ok

C11_SideEffectsInOrder ==
    \A s \in Slots :
        (IsPress(s) /\ ev[s].user_id \in DOMAIN ctx0[s]) =>
            LET inProgress == EditsOf(s, "Downloading your file... (this may take 10-60 seconds)")
                download == CallsOf(s, {"extract_info"})
                dispatch == CallsOf(s, SendOps)
                deletion == CallsOf(s, {"del"})
                completion == EditsOf(s, "Download complete! (You can send another link)")
            IN  /\ \A A \in {inProgress, download, dispatch, deletion, completion} :
                        Cardinality(A) <= 1
                /\ ReturnedBefore(s, inProgress, download)
                /\ ReturnedBefore(s, download, dispatch)
                /\ ReturnedBefore(s, dispatch, deletion)
                /\ ReturnedBefore(s, deletion, completion)
                /\ (pc[s] = "returned" /\ Raised(s, {"edit_text", "extract_info", "del"} \cup SendOps) = {}) =>
                        completion # {}
                /\ ev[s].user_id \notin DOMAIN user_context =>
                        Returned(s, SendOps) # {}
                /\ completion # {} => ev[s].user_id \notin DOMAIN user_context
                /\ ev[s].user_id \in DOMAIN user_context =>
                        user_context[ev[s].user_id] = ctx0[s][ev[s].user_id]

\* a press of a user with a session has made the completion edit
C11_Witness ==
    \E s \in Slots :
        /\ IsPress(s)
        /\ ev[s].user_id \in DOMAIN ctx0[s]
        /\ \E i \in EditsOf(s, "Download complete! (You can send another link)") :
                trace[s][i].ok
        /\ pc[s] = "returned"
(* ------------------------------------------------------------------------ *)
(* C12: the keyboard a link run builds has one button for each of the first *)
(* 15 usable descriptors of the probed list (those with a non-empty         *)
(* format_id and a non-empty ext), in the order of the list: button i is    *)
(* built from the i-th usable descriptor, its callback_data is that         *)
(* descriptor's format_id and its text that descriptor's label; nothing is  *)
(* reordered and equal descriptors each keep their button.  For the list    *)
(* of the two formats 22 and 251 the buttons are "720p (mp4)" with 22, then *)
(* "Audio (webm)" with 251.                                                 *)
(* ------------------------------------------------------------------------ *)
C12_MenuIsPrefixOfUsable ==
    \A s \in Slots :
        MenuBuilt(s) =>
            LET kb == loc[s].keyboard
                fs == IF "formats" \in DOMAIN loc[s].info THEN loc[s].info["formats"] ELSE <<>>
                usable == {j \in 1..Len(fs) :
                            /\ "format_id" \in DOMAIN fs[j]
                            /\ "ext" \in DOMAIN fs[j]
                            /\ fs[j]["format_id"] # ""
                            /\ fs[j]["ext"] # ""}
                rank(j) == Cardinality({k \in usable : k <= j})
                note(f, default) ==
                    IF "format_note" \in DOMAIN f THEN f["format_note"] ELSE default
                label(f) ==
                    IF "vcodec" \in DOMAIN f /\ f["vcodec"] = "none"
                    THEN "AUDIO " \o note(f, "Audio") \o " (" \o f["ext"] \o ")"
                    ELSE "VIDEO " \o note(f, "Unknown") \o " (" \o f["ext"] \o ")"
            IN  /\ Len(kb) = (IF Cardinality(usable) < 15 THEN Cardinality(usable) ELSE 15)
                /\ \A i \in 1..Len(kb) :
                    \E j \in usable :
                        /\ rank(j) = i
                        /\ kb[i].callback_data = fs[j]["format_id"]
                        /\ kb[i].text = label(fs[j])
                /\ fs = <<F22, F251>> =>
                    kb = <<[text |-> "VIDEO 720p (mp4)", callback_data |-> "22"],
                           [text |-> "AUDIO Audio (webm)", callback_data |-> "251"]>>

\* a menu of 15 buttons was sent in which two buttons are equal, two adjacent
\* buttons come from descriptors that are not adjacent in the probed list, and
\* usable descriptors beyond the fifteenth were left out
C12_Witness ==
    \E s \in Slots :
        /\ MenuBuilt(s)
        /\ pc[s] = "returned"
        /\ Len(loc[s].keyboard) = 15
        /\ \E i, j \in 1..15 : i < j /\ loc[s].keyboard[i] = loc[s].keyboard[j]
        /\ loc[s].info["formats"][3] = FNoId
        /\ loc[s].keyboard[3].callback_data = "140"
        /\ Len(SelectSeq(loc[s].info["formats"], HasRequiredFields)) > 15
(* ------------------------------------------------------------------------ *)
(* C13 describes a state a run can reach, not a property of every run.  The *)
(* state needs a link handler to store an entry while a press of the same   *)
(* user is between lines 62 and 80.  main() registers the handlers without  *)
(* run_async, so the dispatcher calls them one after the other, and what    *)
(* holds instead is: the entry a press deletes is the entry it began with,  *)
(* holding the link it downloaded; and between events a user whose link was *)
(* probed has no entry only after a file was sent to that user.             *)
(* ------------------------------------------------------------------------ *)
C13_DeletesOwnSession ==
    /\ \A s \in Slots :
        (IsPress(s) /\ pc[s] \in {"fs_downloading", "fs_send", "fs_del"}) =>
            /\ ev[s].user_id \in DOMAIN user_context
            /\ user_context[ev[s].user_id] = ctx0[s][ev[s].user_id]
            /\ user_context[ev[s].user_id].link = loc[s].link
    /\ Cardinality({s \in Slots : pc[s] \notin {"idle", "returned", "raised"}}) <= 1
    /\ (\A s \in Slots : pc[s] \in {"idle", "returned", "raised"}) =>
            \A u \in Users :
                (hist[u].probed # "" /\ u \notin DOMAIN user_context) =>
                    hist[u].delivered = 1

(* ------------------------------------------------------------------------ *)
(* C14: between events (no handler is inside its body), a user has at most  *)
(* one entry in user_context, and a user who has one has had a link message *)
(* probed successfully, the entry's link is the text of the last such       *)
(* message as the handler reads it (line 90: stripped), and no file has     *)
(* been sent to the user by a download since that probe.                    *)
(* ------------------------------------------------------------------------ *)
Quiescent == \A s \in Slots : pc[s] \in {"idle", "returned", "raised"}

C14_SessionIsLatestProbe ==
    Quiescent =>
        \A u \in Users :
            /\ Cardinality({k \in DOMAIN user_context : k = u}) <= 1
            /\ u \in DOMAIN user_context =>
                /\ hist[u].probed # ""
                /\ user_context[u].link = Strip(hist[u].probed)
                /\ hist[u].delivered = 0

\* a link run has returned after replacing the session of an earlier link,
\* and the message's text had white space around the link
C14_Witness ==
    \E s \in Slots :
        /\ IsLink(s)
        /\ pc[s] = "returned"
        /\ ev[s].user_id \in DOMAIN ctx0[s]
        /\ ev[s].user_id \in DOMAIN user_context
        /\ ctx0[s][ev[s].user_id].link # user_context[ev[s].user_id].link
        /\ user_context[ev[s].user_id].link # ev[s].data
(* ------------------------------------------------------------------------ *)
(* C15: at most one file is sent to a user between a returned probe and the *)
(* deletion of the session it stored, and no press both sends a file and    *)
(* makes the failure edit.                                                  *)
(* ------------------------------------------------------------------------ *)
C15_OneFileAndNoFailureAfterIt ==
    /\ \A u \in Users : hist[u].delivered <= 1
    /\ \A s \in Slots :
        IsPress(s) =>
            /\ Cardinality(Returned(s, SendOps)) <= 1
            /\ ~(/\ Returned(s, SendOps) # {}
                 /\ \E i \in EditsOf(s, "Failed: ") : trace[s][i].ok)
(* ------------------------------------------------------------------------ *)
(* C16: a press that reaches the download (YoutubeDL with 'format':         *)
(* format_id, then extract_info of the stored link) carries as its data the *)
(* callback_data of a button of the keyboard built from the info stored in  *)
(* the user's session; in particular a press with the data of the welcome   *)
(* button, "start", makes no download call.                                 *)
(* ------------------------------------------------------------------------ *)
C16_DownloadFormatIsFromMenu ==
    \A s \in Slots :
        (IsPress(s) /\ CallsOf(s, DownloadOps) # {}) =>
            /\ ev[s].user_id \in DOMAIN ctx0[s]
            /\ LET kb == Keyboard(FormatOptions(ctx0[s][ev[s].user_id].info))
               IN  \E i \in 1..Len(kb) : kb[i].callback_data = ev[s].data
            /\ ev[s].data # "start"
            /\ \A i \in CallsOf(s, {"YoutubeDL"}) : trace[s][i].arg = ev[s].data
(* ------------------------------------------------------------------------ *)
(* C17: when a link run is over, user_context differs from what it was when *)
(* the message arrived only if the format menu was sent; a run that made    *)
(* the "Failed to get formats" reply left user_context as it was.           *)
(* ------------------------------------------------------------------------ *)
C17_SessionOnlyWithMenu ==
    \A s \in Slots :
        (IsLink(s) /\ Finished(s)) =>
            /\ user_context # ctx0[s] =>
                \E i \in Returned(s, {"reply_text"}) :
                    trace[s][i].arg = "Select your format:"
            /\ (\E i \in CallsOf(s, {"reply_text"}) :
                    trace[s][i].arg = "Failed to get formats: ") =>
                user_context = ctx0[s]
(* ------------------------------------------------------------------------ *)
(* C18: while a handler runs for an event of user u and when it is over     *)
(* (start command, link message or button press, returned or raised), every *)
(* other user has an entry in user_context exactly if that user had one     *)
(* when the event arrived, and the entry is the same.                       *)
(* ------------------------------------------------------------------------ *)
C18_OtherUsersUntouched ==
    \A s \in Slots :
        pc[s] # "idle" =>
            \A v \in Users \ {ev[s].user_id} :
                /\ v \in DOMAIN user_context <=> v \in DOMAIN ctx0[s]
                /\ v \in DOMAIN user_context => user_context[v] = ctx0[s][v]

\* a press has deleted its user's session while another user holds one
C18_Witness ==
    \E s \in Slots :
        /\ IsPress(s)
        /\ Finished(s)
        /\ Returned(s, {"del"}) # {}
        /\ ev[s].user_id \notin DOMAIN user_context
        /\ \E v \in Users \ {ev[s].user_id} : v \in DOMAIN user_context
=============================================================================
